---- MODULE Spec2Model ----
(***************************************************************************)
(* Model of src/main/main.go: an order cache fed from a NATS subscription, *)
(* mirrored into PostgreSQL, restored from PostgreSQL at start-up and      *)
(* served over HTTP (/data?id=...).                                        *)
(*                                                                         *)
(* Strings that the program parses (identifiers) are sequences of          *)
(* one-character strings, so that strconv.Atoi / strconv.Itoa are computed *)
(* and not assumed.  JSON documents are records saying whether the text is *)
(* syntactically valid and which members it has; json.Unmarshal and        *)
(* json.Marshal are computed on them.                                      *)
(***************************************************************************)
EXTENDS Integers, Sequences, FiniteSets, TLC

(***************************************************************************)
(* Bounds of the model.                                                    *)
(***************************************************************************)
\* number of NATS messages delivered in one run (one callback invocation each)
NumMsgs == 2
\* number of HTTP requests to /data in one run
NumReqs == 2
\* number of rows in the messages table when the process starts
MaxStored == 2

Callbacks == 1..NumMsgs
Requests == 1..NumReqs

(***************************************************************************)
(* strconv.Atoi and strconv.Itoa on strings given as character sequences.  *)
(***************************************************************************)
DigitChars == <<"0", "1", "2", "3", "4", "5", "6", "7", "8", "9">>

IsDigit(c) == \E i \in 1..10 : DigitChars[i] = c

DigitVal(c) == (CHOOSE i \in 1..10 : DigitChars[i] = c) - 1

RECURSIVE ParseDigits(_)
ParseDigits(s) ==
    IF Len(s) = 0 THEN 0
    ELSE 10 * ParseDigits(SubSeq(s, 1, Len(s) - 1)) + DigitVal(s[Len(s)])

\* the digits of a magnitude without its leading zeros
RECURSIVE StripZeros(_)
StripZeros(s) == IF Len(s) > 1 /\ s[1] = "0" THEN StripZeros(Tail(s)) ELSE s

\* a > b for digit sequences of equal length
RECURSIVE DigitsGreater(_, _)
DigitsGreater(a, b) ==
    IF Len(a) = 0 THEN FALSE
    ELSE IF a[1] # b[1] THEN DigitVal(a[1]) > DigitVal(b[1])
    ELSE DigitsGreater(Tail(a), Tail(b))

\* the decimal digits of 1<<63 - 1, the largest int
MaxIntDigits ==
    <<"9", "2", "2", "3", "3", "7", "2", "0", "3", "6", "8", "5", "4", "7", "7", "5",
      "8", "0", "7">>

\* the decimal digits of 1<<63, the magnitude of the smallest int
MinIntDigits ==
    <<"9", "2", "2", "3", "3", "7", "2", "0", "3", "6", "8", "5", "4", "7", "7", "5",
      "8", "0", "8">>

\* the magnitude does not fit an int of that sign
OutOfRange(body, neg) ==
    LET m == StripZeros(body)
        limit == IF neg THEN MinIntDigits ELSE MaxIntDigits
    IN \/ Len(m) > Len(limit)
       \/ Len(m) = Len(limit) /\ DigitsGreater(m, limit)

\* strconv.Atoi: optional sign, then one or more decimal digits (a syntax
\* error otherwise); a value that does not fit an int is a range error.
Atoi(s) ==
    LET signed == Len(s) > 0 /\ s[1] \in {"+", "-"}
        neg == signed /\ s[1] = "-"
        body == IF signed THEN Tail(s) ELSE s
        syntax == Len(body) > 0 /\ \A i \in 1..Len(body) : IsDigit(body[i])
        ok == syntax /\ ~OutOfRange(body, neg)
        mag == IF ok THEN ParseDigits(body) ELSE 0
    IN [err |-> ~ok,
        val |-> IF neg THEN 0 - mag ELSE mag]

RECURSIVE ItoaNat(_)
ItoaNat(n) ==
    IF n < 10 THEN <<DigitChars[n + 1]>>
    ELSE ItoaNat(n \div 10) \o <<DigitChars[(n % 10) + 1]>>

\* strconv.Itoa: canonical decimal text.
Itoa(n) == IF n < 0 THEN <<"-">> \o ItoaNat(0 - n) ELSE ItoaNat(n)

(***************************************************************************)
(* Message and its JSON encoding.  Of the struct's fields the model keeps  *)
(* OrderUID, TrackNumber and Items (an Item is kept as its rid); Items is  *)
(* a Go slice, which is nil or a sequence.                                 *)
(***************************************************************************)
NilItems == [isNil |-> TRUE, elems |-> <<>>]

ItemsOf(seq) == [isNil |-> FALSE, elems |-> seq]

\* var message Message
ZeroMessage == [OrderUID |-> <<>>, TrackNumber |-> <<>>, Items |-> NilItems]

\* JSON values: a string, an array of items, or null.
JString(s) == [t |-> "string", v |-> s]
JArray(a) == [t |-> "array", v |-> a]
JNull == [t |-> "null", v |-> <<>>]

\* the JSON member names the struct tags declare, and the JSON type of each
FieldType == [order_uid |-> "string", track_number |-> "string", items |-> "array"]

\* json.Unmarshal(data, &message): a syntax error or a member of the wrong
\* JSON type is an error; a missing or null member leaves the zero value;
\* members the struct does not declare are ignored.
Unmarshal(p) ==
    LET d == p.doc
        known == DOMAIN d \cap DOMAIN FieldType
        has(f, t) == f \in DOMAIN d /\ d[f].t = t
    IN [err |-> \/ ~p.syntax
                \/ \E f \in known : d[f].t \notin {FieldType[f], "null"},
        message |->
          [OrderUID |-> IF has("order_uid", "string") THEN d["order_uid"].v ELSE <<>>,
           TrackNumber |-> IF has("track_number", "string") THEN d["track_number"].v ELSE <<>>,
           Items |-> IF has("items", "array") THEN ItemsOf(d["items"].v) ELSE NilItems]]

\* json.Marshal(message): every declared member is written; a nil slice is null.
Marshal(m) ==
    [syntax |-> TRUE,
     doc |-> [order_uid |-> JString(m.OrderUID),
              track_number |-> JString(m.TrackNumber),
              items |-> IF m.Items.isNil THEN JNull ELSE JArray(m.Items.elems)]]

(***************************************************************************)
(* Inputs: identifiers, payloads on the channel, rows found in the table.  *)
(***************************************************************************)
Id1 == <<"1">>
Id02 == <<"0", "2">>
Id3 == <<"3">>
IdOrder1 == <<"a", "-", "1">>
Id01 == <<"0", "1">>
IdMissing == <<>>
\* twenty digits: a decimal number larger than any int
IdHuge == [i \in 1..20 |-> "9"]

\* a complete order "1"
PayloadA ==
    [syntax |-> TRUE,
     doc |-> [order_uid |-> JString(Id1), track_number |-> JString(<<"t">>),
              items |-> JArray(<<"x", "y">>)]]

\* another order "1": items in the other order, no track_number, an unknown member
PayloadB ==
    [syntax |-> TRUE,
     doc |-> [order_uid |-> JString(Id1), items |-> JArray(<<"y", "x">>),
              extra |-> JString(<<"e">>)]]

\* an order with a non-numeric identifier
PayloadC ==
    [syntax |-> TRUE,
     doc |-> [order_uid |-> JString(IdOrder1), track_number |-> JString(<<"t">>),
              items |-> JArray(<<"x">>)]]

\* an order "02": the identifier is numeric but not in canonical form
PayloadD ==
    [syntax |-> TRUE,
     doc |-> [order_uid |-> JString(Id02), items |-> JNull]]

\* not JSON at all
PayloadBadSyntax == [syntax |-> FALSE, doc |-> [order_uid |-> JString(Id3)]]

\* JSON, but order_uid is an array
PayloadBadType ==
    [syntax |-> TRUE,
     doc |-> [order_uid |-> JArray(<<"x">>), items |-> JArray(<<"x">>)]]

\* msg.Data of the messages published on the channel
Payloads == {PayloadA, PayloadB, PayloadC, PayloadBadSyntax}

\* the id query parameter of the requests
IdParams == {Id1, Id01, IdOrder1, IdMissing, IdHuge}

Row(id, payload) == [id |-> id, data |-> payload]

\* the row saveMessageToDB writes for a payload
SavedRow(p) ==
    LET message == Unmarshal(p).message
    IN Row(message.OrderUID, Marshal(message))

\* rows the messages table may hold at start-up: rows an earlier run saved,
\* and a row whose data is not a Message
StoredRows ==
    {SavedRow(PayloadA), SavedRow(PayloadD), SavedRow(PayloadC), Row(Id3, PayloadBadType)}

RECURSIVE SeqsUpTo(_, _)
SeqsUpTo(S, n) ==
    IF n = 0 THEN {<<>>}
    ELSE LET shorter == SeqsUpTo(S, n - 1)
         IN shorter \cup {Append(s, x) : s \in {t \in shorter : Len(t) = n - 1}, x \in S}

InitialTables == SeqsUpTo(StoredRows, MaxStored)

(***************************************************************************)
(* State.                                                                  *)
(***************************************************************************)
VARIABLES
    mainPc,     \* position of main()
    fatal,      \* "none", or which log.Fatal ended the process
    natsPc,     \* position of the goroutine running subscribeToNATS
    restoreErr, \* what restoreCacheFromDB returned: "none" (not yet), "nil", or the failing call
    rowIdx,     \* rows cursor of restoreCacheFromDB: index of the current row
    rowKey,     \* strconv.Itoa(id) of the current row
    rowMsg,     \* message decoded from the current row
    data,       \* cache.data
    writer,     \* holder of cache.Lock(): 0 none, -1 restoreCacheFromDB, h callback h
    readers,    \* holders of cache.RLock()
    rows,       \* the messages table, in enumeration order
    cbPc,       \* position of each callback invocation
    cbData,     \* its msg.Data
    cbMsg,      \* its decoded message
    reqPc,      \* position of each HTTP handler invocation
    reqId,      \* its idStr
    reqKey,     \* its strconv.Itoa(id)
    reqMsg,     \* its message
    reqOk,      \* its ok
    status,     \* its HTTP status, 0 before the response
    logged,     \* lines written by log.Println / log.Printf
    applied     \* history: callbacks in the order of their cache writes

vars == <<mainPc, fatal, natsPc, restoreErr, rowIdx, rowKey, rowMsg, data, writer,
          readers, rows, cbPc, cbData, cbMsg, reqPc, reqId, reqKey, reqMsg, reqOk, status,
          logged, applied>>

restoreVars == <<restoreErr, rowIdx, rowKey, rowMsg>>
cbVars == <<cbPc, cbData, cbMsg, applied>>
reqVars == <<reqPc, reqId, reqKey, reqMsg, reqOk, status>>
lockVars == <<writer, readers>>

\* variant: the assignment replaces the whole map
MapAssign_Fresh(m, key, message) == [k \in {key} |-> message]

\* variant: an identifier already in the map keeps its message
MapAssign_KeepFirst(m, key, message) ==
    [k \in DOMAIN m \cup {key} |-> IF k \in DOMAIN m THEN m[k] ELSE message]

\* cache.data[key] = message
MapAssign(m, key, message) ==
    [k \in DOMAIN m \cup {key} |-> IF k = key THEN message ELSE m[k]]

EmptyMap == [k \in {} |-> ZeroMessage]

Running == fatal = "none"

Init ==
    /\ mainPc = "connectToDB"
    /\ fatal = "none"
    /\ natsPc = "notStarted"
    /\ restoreErr = "none"
    /\ rowIdx = 0
    /\ rowKey = <<>>
    /\ rowMsg = ZeroMessage
    /\ data = EmptyMap
    /\ writer = 0
    /\ readers = {}
    /\ rows \in InitialTables
    /\ cbPc = [h \in Callbacks |-> "idle"]
    /\ cbData = [h \in Callbacks |-> PayloadBadSyntax]
    /\ cbMsg = [h \in Callbacks |-> ZeroMessage]
    /\ reqPc = [q \in Requests |-> "idle"]
    /\ reqId = [q \in Requests |-> <<>>]
    /\ reqKey = [q \in Requests |-> <<>>]
    /\ reqMsg = [q \in Requests |-> ZeroMessage]
    /\ reqOk = [q \in Requests |-> FALSE]
    /\ status = [q \in Requests |-> 0]
    /\ logged = {}
    /\ applied = <<>>

(***************************************************************************)
(* main(), lines 224-248.                                                  *)
(***************************************************************************)
\* db, err := connectToDB(); a failure is fatal
main_connectToDB ==
    /\ Running
    /\ mainPc = "connectToDB"
    /\ \/ mainPc' = "go" /\ fatal' = fatal
       \/ fatal' = "connectToDB" /\ mainPc' = mainPc
    /\ UNCHANGED <<natsPc, restoreVars, data, lockVars, rows, cbVars, reqVars, logged>>

\* go subscribeToNATS(channel, cache, db): the goroutine starts, main goes on
main_go ==
    /\ Running
    /\ mainPc = "go"
    /\ mainPc' = "ListenAndServe"
    /\ natsPc' = "Connect"
    /\ UNCHANGED <<fatal, restoreVars, data, lockVars, rows, cbVars, reqVars, logged>>

\* http.HandleFunc + http.ListenAndServe: the server accepts requests, or fails (fatal)
main_ListenAndServe ==
    /\ Running
    /\ mainPc = "ListenAndServe"
    /\ \/ mainPc' = "serving" /\ fatal' = fatal
       \/ fatal' = "ListenAndServe" /\ mainPc' = mainPc
    /\ logged' = logged \cup {"Starting HTTP server on port 8080..."}
    /\ UNCHANGED <<natsPc, restoreVars, data, lockVars, rows, cbVars, reqVars>>

(***************************************************************************)
(* subscribeToNATS, lines 106-146, with restoreCacheFromDB, lines 149-177. *)
(***************************************************************************)
\* nc, err := nats.Connect(...); a failure is fatal
nats_Connect ==
    /\ Running
    /\ natsPc = "Connect"
    /\ \/ natsPc' = "Query" /\ fatal' = fatal
       \/ fatal' = "nats.Connect" /\ natsPc' = natsPc
    /\ UNCHANGED <<mainPc, restoreVars, data, lockVars, rows, cbVars, reqVars, logged>>

\* variant: log.Fatal in place of log.Println at line 116
RestoreReturns_Fatal(err) ==
    /\ restoreErr' = err
    /\ logged' = logged \cup {IF err = "nil" THEN "Cache restored from DB"
                                             ELSE "Failed to restore cache from DB:"}
    /\ natsPc' = IF err = "nil" THEN "Subscribe" ELSE natsPc
    /\ fatal' = IF err = "nil" THEN fatal ELSE "restoreCacheFromDB"

\* restoreCacheFromDB returns err to subscribeToNATS, which logs it and goes on
RestoreReturns(err) ==
    /\ restoreErr' = err
    /\ logged' = logged \cup {IF err = "nil" THEN "Cache restored from DB"
                                             ELSE "Failed to restore cache from DB:"}
    /\ natsPc' = "Subscribe"
    /\ fatal' = fatal

\* rows, err := db.Query("SELECT id, data FROM messages")
restore_Query ==
    /\ Running
    /\ natsPc = "Query"
    /\ \/ /\ natsPc' = "Next"
          /\ UNCHANGED <<restoreErr, logged, fatal>>
       \/ RestoreReturns("Query")
    /\ UNCHANGED <<mainPc, rowIdx, rowKey, rowMsg, data, lockVars, rows, cbVars, reqVars>>

\* one turn of the loop up to cache.Lock(): rows.Next, rows.Scan, json.Unmarshal
restore_Next ==
    /\ Running
    /\ natsPc = "Next"
    /\ IF rowIdx = Len(rows)
       THEN /\ RestoreReturns("nil")
            /\ UNCHANGED <<rowIdx, rowKey, rowMsg>>
       ELSE LET row == rows[rowIdx + 1]
                id == Atoi(row.id)
                dec == Unmarshal(row.data)
            IN IF id.err
               THEN /\ RestoreReturns("Scan")
                    /\ UNCHANGED <<rowIdx, rowKey, rowMsg>>
               ELSE IF dec.err
               THEN /\ RestoreReturns("Unmarshal")
                    /\ UNCHANGED <<rowIdx, rowKey, rowMsg>>
               ELSE /\ rowIdx' = rowIdx + 1
                    /\ rowKey' = Itoa(id.val)
                    /\ rowMsg' = dec.message
                    /\ natsPc' = "Lock"
                    /\ UNCHANGED <<restoreErr, logged, fatal>>
    /\ UNCHANGED <<mainPc, data, lockVars, rows, cbVars, reqVars>>

\* cache.Lock(); cache.data[strconv.Itoa(id)] = message
restore_Lock ==
    /\ Running
    /\ natsPc = "Lock"
    /\ writer = 0 /\ readers = {}
    /\ writer' = 0 - 1
    /\ data' = MapAssign(data, rowKey, rowMsg)
    /\ natsPc' = "Unlock"
    /\ UNCHANGED <<mainPc, fatal, restoreVars, readers, rows, cbVars, reqVars, logged>>

\* cache.Unlock()
restore_Unlock ==
    /\ Running
    /\ natsPc = "Unlock"
    /\ writer' = 0
    /\ natsPc' = "Next"
    /\ UNCHANGED <<mainPc, fatal, restoreVars, data, readers, rows, cbVars, reqVars, logged>>

\* the loop of restoreCacheFromDB as a function of the enumeration: the map
\* it leaves when it starts from m and the query returns the rows of table in
\* that order; it returns at the first row that fails to scan or to decode
RECURSIVE restoreCacheFromDB(_, _)
restoreCacheFromDB(table, m) ==
    IF Len(table) = 0 THEN m
    ELSE LET row == Head(table)
             id == Atoi(row.id)
             dec == Unmarshal(row.data)
         IN IF id.err \/ dec.err THEN m
            ELSE restoreCacheFromDB(Tail(table), MapAssign(m, Itoa(id.val), dec.message))

\* nc.Subscribe(channel, callback); a failure is fatal; then select {}
nats_Subscribe ==
    /\ Running
    /\ natsPc = "Subscribe"
    /\ \/ /\ natsPc' = "select"
          /\ logged' = logged \cup {"Subscribed to channel"}
          /\ fatal' = fatal
       \/ /\ fatal' = "Subscribe"
          /\ UNCHANGED <<natsPc, logged>>
    /\ UNCHANGED <<mainPc, restoreVars, data, lockVars, rows, cbVars, reqVars>>

(***************************************************************************)
(* The subscription callback, lines 120-138, with saveMessageToDB, lines   *)
(* 180-192.  Invocation h handles the h-th message of the channel.  The    *)
(* callback is a closure handed to the NATS client; the model lets         *)
(* invocations overlap, which covers every delivery discipline.            *)
(***************************************************************************)
\* variant: the return at line 125 is missing
UnmarshalFails_NoReturn(h) ==
    /\ cbPc' = [cbPc EXCEPT ![h] = "Lock"]
    /\ logged' = logged \cup {"Failed to unmarshal message:"}
    /\ cbMsg' = [cbMsg EXCEPT ![h] = Unmarshal(cbData'[h]).message]

\* if err != nil { log.Println("Failed to unmarshal message:", err); return }
UnmarshalFails(h) ==
    /\ cbPc' = [cbPc EXCEPT ![h] = "dropped"]
    /\ logged' = logged \cup {"Failed to unmarshal message:"}
    /\ cbMsg' = cbMsg

\* variant: nc.Subscribe is called before restoreCacheFromDB, so messages are
\* delivered while the table is being read
callback_Unmarshal_Early(h) ==
    /\ Running
    /\ natsPc \notin {"notStarted", "Connect"}
    /\ cbPc[h] = "idle"
    /\ h > 1 => cbPc[h - 1] # "idle"
    /\ \E p \in Payloads :
         LET dec == Unmarshal(p)
         IN /\ cbData' = [cbData EXCEPT ![h] = p]
            /\ IF dec.err
               THEN UnmarshalFails(h)
               ELSE /\ cbPc' = [cbPc EXCEPT ![h] = "Lock"]
                    /\ cbMsg' = [cbMsg EXCEPT ![h] = dec.message]
                    /\ logged' = logged
    /\ UNCHANGED <<mainPc, fatal, natsPc, restoreVars, data, lockVars, rows, applied, reqVars>>

\* the callback is invoked with a message: json.Unmarshal(msg.Data, &message)
callback_Unmarshal(h) ==
    /\ Running
    /\ natsPc = "select"
    /\ cbPc[h] = "idle"
    /\ h > 1 => cbPc[h - 1] # "idle"
    /\ \E p \in Payloads :
         LET dec == Unmarshal(p)
         IN /\ cbData' = [cbData EXCEPT ![h] = p]
            /\ IF dec.err
               THEN UnmarshalFails(h)
               ELSE /\ cbPc' = [cbPc EXCEPT ![h] = "Lock"]
                    /\ cbMsg' = [cbMsg EXCEPT ![h] = dec.message]
                    /\ logged' = logged
    /\ UNCHANGED <<mainPc, fatal, natsPc, restoreVars, data, lockVars, rows, applied, reqVars>>

\* variant: the cache is keyed by message.TrackNumber
callback_Lock_ByTrackNumber(h) ==
    /\ Running
    /\ cbPc[h] = "Lock"
    /\ writer = 0 /\ readers = {}
    /\ writer' = h
    /\ data' = MapAssign(data, cbMsg[h].TrackNumber, cbMsg[h])
    /\ applied' = Append(applied, h)
    /\ cbPc' = [cbPc EXCEPT ![h] = "Unlock"]
    /\ UNCHANGED <<mainPc, fatal, natsPc, restoreVars, readers, rows, cbData, cbMsg, reqVars,
                   logged>>

\* variant: the callback takes the lock but leaves the map as it is
callback_Lock_NoStore(h) ==
    /\ Running
    /\ cbPc[h] = "Lock"
    /\ writer = 0 /\ readers = {}
    /\ writer' = h
    /\ applied' = Append(applied, h)
    /\ cbPc' = [cbPc EXCEPT ![h] = "Unlock"]
    /\ UNCHANGED <<mainPc, fatal, natsPc, restoreVars, data, readers, rows, cbData, cbMsg,
                   reqVars, logged>>

\* variant: the callback writes the map without taking cache.Lock()
callback_Lock_NoLock(h) ==
    /\ Running
    /\ cbPc[h] = "Lock"
    /\ writer' = h
    /\ data' = MapAssign(data, cbMsg[h].OrderUID, cbMsg[h])
    /\ applied' = Append(applied, h)
    /\ cbPc' = [cbPc EXCEPT ![h] = "Unlock"]
    /\ UNCHANGED <<mainPc, fatal, natsPc, restoreVars, readers, rows, cbData, cbMsg, reqVars,
                   logged>>

\* cache.Lock(); cache.data[message.OrderUID] = message
callback_Lock(h) ==
    /\ Running
    /\ cbPc[h] = "Lock"
    /\ writer = 0 /\ readers = {}
    /\ writer' = h
    /\ data' = MapAssign(data, cbMsg[h].OrderUID, cbMsg[h])
    /\ applied' = Append(applied, h)
    /\ cbPc' = [cbPc EXCEPT ![h] = "Unlock"]
    /\ UNCHANGED <<mainPc, fatal, natsPc, restoreVars, readers, rows, cbData, cbMsg, reqVars,
                   logged>>

\* variant: the lock is released when the callback returns (defer cache.Unlock())
callback_Unlock_Deferred(h) ==
    /\ Running
    /\ cbPc[h] = "Unlock"
    /\ cbPc' = [cbPc EXCEPT ![h] = "saveMessageToDB"]
    /\ UNCHANGED <<mainPc, fatal, natsPc, restoreVars, data, lockVars, rows, cbData, cbMsg,
                   applied, reqVars, logged>>

\* cache.Unlock()
callback_Unlock(h) ==
    /\ Running
    /\ cbPc[h] = "Unlock"
    /\ writer' = 0
    /\ cbPc' = [cbPc EXCEPT ![h] = "saveMessageToDB"]
    /\ UNCHANGED <<mainPc, fatal, natsPc, restoreVars, data, readers, rows, cbData, cbMsg,
                   applied, reqVars, logged>>

\* variant: a failed INSERT takes the message out of the cache again
SaveFails_Rollback(h) ==
    /\ rows' = rows
    /\ cbPc' = [cbPc EXCEPT ![h] = "saveFailed"]
    /\ logged' = logged \cup {"Failed to save message to DB:"}
    /\ fatal' = fatal
    /\ data' = [k \in DOMAIN data \ {cbMsg[h].OrderUID} |-> data[k]]

\* variant: log.Fatal in place of log.Println at line 136
SaveFails_Fatal(h) ==
    /\ rows' = rows
    /\ cbPc' = cbPc
    /\ logged' = logged \cup {"Failed to save message to DB:"}
    /\ fatal' = "saveMessageToDB"
    /\ data' = data

\* if err != nil { log.Println("Failed to save message to DB:", err) }
SaveFails(h) ==
    /\ rows' = rows
    /\ cbPc' = [cbPc EXCEPT ![h] = "saveFailed"]
    /\ logged' = logged \cup {"Failed to save message to DB:"}
    /\ UNCHANGED <<fatal, data>>

\* err = saveMessageToDB(message, db): the INSERT appends a row, or fails;
\* either way the callback returns
callback_saveMessageToDB(h) ==
    /\ Running
    /\ cbPc[h] = "saveMessageToDB"
    /\ \/ /\ rows' = Append(rows, Row(cbMsg[h].OrderUID, Marshal(cbMsg[h])))
          /\ cbPc' = [cbPc EXCEPT ![h] = "saved"]
          /\ UNCHANGED <<logged, fatal, data>>
       \/ SaveFails(h)
    /\ UNCHANGED <<mainPc, natsPc, restoreVars, lockVars, cbData, cbMsg, applied, reqVars>>

(***************************************************************************)
(* The HTTP handler, lines 196-221.  Invocation q serves the q-th request. *)
(***************************************************************************)
\* variant: the error of strconv.Atoi is ignored (id, _ := strconv.Atoi(idStr))
handler_Atoi_IgnoreErr(q) ==
    /\ Running
    /\ mainPc = "serving"
    /\ reqPc[q] = "idle"
    /\ q > 1 => reqPc[q - 1] # "idle"
    /\ \E idStr \in IdParams :
         /\ reqId' = [reqId EXCEPT ![q] = idStr]
         /\ reqKey' = [reqKey EXCEPT ![q] = Itoa(Atoi(idStr).val)]
         /\ reqPc' = [reqPc EXCEPT ![q] = "RLock"]
    /\ UNCHANGED <<mainPc, fatal, natsPc, restoreVars, data, lockVars, rows, cbVars,
                   reqMsg, reqOk, status, logged>>

\* idStr := r.URL.Query().Get("id"); id, err := strconv.Atoi(idStr);
\* on an error: 400 Invalid ID
handler_Atoi(q) ==
    /\ Running
    /\ mainPc = "serving"
    /\ reqPc[q] = "idle"
    /\ q > 1 => reqPc[q - 1] # "idle"
    /\ \E idStr \in IdParams :
         LET id == Atoi(idStr)
         IN /\ reqId' = [reqId EXCEPT ![q] = idStr]
            /\ IF id.err
               THEN /\ status' = [status EXCEPT ![q] = 400]
                    /\ reqPc' = [reqPc EXCEPT ![q] = "done"]
                    /\ reqKey' = reqKey
               ELSE /\ reqKey' = [reqKey EXCEPT ![q] = Itoa(id.val)]
                    /\ reqPc' = [reqPc EXCEPT ![q] = "RLock"]
                    /\ status' = status
    /\ UNCHANGED <<mainPc, fatal, natsPc, restoreVars, data, lockVars, rows, cbVars,
                   reqMsg, reqOk, logged>>

\* cache.RLock(); message, ok := cache.data[strconv.Itoa(id)]
handler_RLock(q) ==
    /\ Running
    /\ reqPc[q] = "RLock"
    /\ writer = 0
    /\ readers' = readers \cup {q}
    /\ reqOk' = [reqOk EXCEPT ![q] = reqKey[q] \in DOMAIN data]
    /\ reqMsg' = [reqMsg EXCEPT ![q] =
                    IF reqKey[q] \in DOMAIN data THEN data[reqKey[q]] ELSE ZeroMessage]
    /\ reqPc' = [reqPc EXCEPT ![q] = "RUnlock"]
    /\ UNCHANGED <<mainPc, fatal, natsPc, restoreVars, data, writer, rows, cbVars,
                   reqId, reqKey, status, logged>>

\* variant: the read lock is released when the handler returns (defer cache.RUnlock())
handler_RUnlock_Deferred(q) ==
    /\ Running
    /\ reqPc[q] = "RUnlock"
    /\ reqPc' = [reqPc EXCEPT ![q] = "respond"]
    /\ UNCHANGED <<mainPc, fatal, natsPc, restoreVars, data, lockVars, rows, cbVars,
                   reqId, reqKey, reqMsg, reqOk, status, logged>>

\* cache.RUnlock()
handler_RUnlock(q) ==
    /\ Running
    /\ reqPc[q] = "RUnlock"
    /\ readers' = readers \ {q}
    /\ reqPc' = [reqPc EXCEPT ![q] = "respond"]
    /\ UNCHANGED <<mainPc, fatal, natsPc, restoreVars, data, writer, rows, cbVars,
                   reqId, reqKey, reqMsg, reqOk, status, logged>>

\* 404 Message not found, or json.Marshal(message) and 200; json.Marshal of a
\* Message has no failing case, so the 500 branch is not taken
handler_respond(q) ==
    /\ Running
    /\ reqPc[q] = "respond"
    /\ status' = [status EXCEPT ![q] = IF reqOk[q] THEN 200 ELSE 404]
    /\ reqPc' = [reqPc EXCEPT ![q] = "done"]
    /\ UNCHANGED <<mainPc, fatal, natsPc, restoreVars, data, lockVars, rows, cbVars,
                   reqId, reqKey, reqMsg, reqOk, logged>>

\* the body of a 200 response: w.Write(jsonData)
ResponseBody(q) == Marshal(reqMsg[q])

Next ==
    \/ main_connectToDB
    \/ main_go
    \/ main_ListenAndServe
    \/ nats_Connect
    \/ restore_Query
    \/ restore_Next
    \/ restore_Lock
    \/ restore_Unlock
    \/ nats_Subscribe
    \/ \E h \in Callbacks : callback_Unmarshal(h)
    \/ \E h \in Callbacks : callback_Lock(h)
    \/ \E h \in Callbacks : callback_Unlock(h)
    \/ \E h \in Callbacks : callback_saveMessageToDB(h)
    \/ \E q \in Requests : handler_Atoi(q)
    \/ \E q \in Requests : handler_RLock(q)
    \/ \E q \in Requests : handler_RUnlock(q)
    \/ \E q \in Requests : handler_respond(q)

Spec == Init /\ [][Next]_vars

(***************************************************************************)
(* Vocabulary of the properties.                                           *)
(***************************************************************************)
Range(f) == {f[i] : i \in DOMAIN f}

\* restoreCacheFromDB has returned
RecoveryEnded == restoreErr # "none"

\* nc.Subscribe has returned without an error
Subscribed == natsPc = "select"

\* request q is between cache.RLock() and cache.RUnlock()
Reading(q) == q \in readers

\* the callbacks that have written the cache under identifier x
PutsFor(x) == {h \in Range(applied) : cbMsg[h].OrderUID = x}

\* the position of callback h among the cache writes
PutIndex(h) == CHOOSE i \in 1..Len(applied) : applied[i] = h

\* callback h made the latest cache write for its identifier
IsLastPut(h) ==
    /\ h \in Range(applied)
    /\ \A g \in PutsFor(cbMsg[h].OrderUID) : PutIndex(g) <= PutIndex(h)

\* request q arrives in this step, asking for idStr
Arrives(q, idStr) == reqPc[q] = "idle" /\ reqPc'[q] # "idle" /\ reqId'[q] = idStr

\* request q reads the cache in this step, having asked for idStr
Reads(q, idStr) == reqPc[q] = "RLock" /\ reqPc'[q] = "RUnlock" /\ reqId[q] = idStr

\* the identifiers of the table's rows all scan into an int
AllIdsScan == \A i \in 1..Len(rows) : ~Atoi(rows[i].id).err

(***************************************************************************)
(* C1: no request reads the cache before restoreCacheFromDB has returned   *)
(* and the subscription has been made.                                     *)
(***************************************************************************)
C1_NoReadBeforeRecoveryAndSubscribe ==
    \A q \in Requests : Reading(q) => RecoveryEnded /\ Subscribed

(***************************************************************************)
(* C2: when recovery has ended, every row with a unique identifier and a   *)
(* decodable payload is in the cache, wherever the undecodable rows stand  *)
(* in the enumeration.  Stated for tables that could be enumerated and    *)
(* whose identifiers all scan, at the moment recovery ends (no message has *)
(* been consumed yet).                                                     *)
(***************************************************************************)
C2_DecodableRowsRestored ==
    (natsPc = "Subscribe" /\ restoreErr # "Query" /\ AllIdsScan) =>
        \A i \in 1..Len(rows) :
            LET key == Itoa(Atoi(rows[i].id).val)
                dec == Unmarshal(rows[i].data)
            IN (/\ ~dec.err
                /\ \A j \in 1..Len(rows) : j # i => rows[j].id # rows[i].id)
               => key \in DOMAIN data /\ data[key] = dec.message

(***************************************************************************)
(* C3: once a callback has written the message with OrderUID x to the      *)
(* cache (and no later message replaced it), a request for x arriving      *)
(* afterwards is answered with that message: it is not rejected, and its   *)
(* cache read finds the message.                                           *)
(***************************************************************************)
C3_LookupAfterPutFinds ==
    [][\A q \in Requests, h \in Callbacks :
          IsLastPut(h) =>
            /\ Arrives(q, cbMsg[h].OrderUID) => status'[q] # 400
            /\ Reads(q, cbMsg[h].OrderUID) => reqOk'[q] /\ reqMsg'[q] = cbMsg[h]]_vars

(***************************************************************************)
(* C4: if the table held the single row (id, payload), payload decodable,  *)
(* when recovery enumerated it, then a request for id arriving after       *)
(* recovery (and before any message is consumed) is answered with the      *)
(* decoded payload.                                                        *)
(***************************************************************************)
C4_SingleRowRestoredAndFound ==
    [][\A q \in Requests :
          (/\ restoreErr \notin {"none", "Query"}
           /\ applied = <<>>
           /\ Len(rows) = 1
           /\ ~Unmarshal(rows[1].data).err)
          => /\ Arrives(q, rows[1].id) => status'[q] # 400
             /\ Reads(q, rows[1].id) =>
                  reqOk'[q] /\ reqMsg'[q] = Unmarshal(rows[1].data).message]_vars

(***************************************************************************)
(* C5: after the callback's put of a message R, with no later put for the  *)
(* same OrderUID, the cache maps R.OrderUID to R, field for field and with *)
(* Items in the same order, and a request reading that key gets found =    *)
(* true and R.                                                             *)
(***************************************************************************)
C5_GetAfterPut ==
    \A h \in Callbacks :
        IsLastPut(h) =>
            LET R == cbMsg[h]
            IN /\ R.OrderUID \in DOMAIN data
               /\ data[R.OrderUID] = R
               /\ \A q \in Requests :
                    (Reading(q) /\ reqKey[q] = R.OrderUID) => reqOk[q] /\ reqMsg[q] = R

C5_Witness ==
    \E h \in Callbacks, q \in Requests :
        /\ IsLastPut(h)
        /\ Reading(q)
        /\ reqKey[q] = cbMsg[h].OrderUID
        /\ reqOk[q]
        /\ reqMsg[q] = cbMsg[h]
        /\ Len(cbMsg[h].Items.elems) = 2

(***************************************************************************)
(* C6: puts of callbacks that overlap are not lost: every callback that    *)
(* has made its put, and whose OrderUID no other put carries, has its      *)
(* message in the cache under its OrderUID.                                *)
(***************************************************************************)
C6_DistinctPutsAllKept ==
    \A h \in Range(applied) :
        (\A g \in Range(applied) \ {h} : cbMsg[g].OrderUID # cbMsg[h].OrderUID)
        => /\ cbMsg[h].OrderUID \in DOMAIN data
           /\ data[cbMsg[h].OrderUID] = cbMsg[h]

\* the second message's put came first, and both messages are in the cache
C6_Witness ==
    /\ NumMsgs >= 2
    /\ Len(applied) >= 2
    /\ applied[1] = 2 /\ applied[2] = 1
    /\ cbMsg[1].OrderUID # cbMsg[2].OrderUID
    /\ \A h \in {1, 2} : /\ cbMsg[h].OrderUID \in DOMAIN data
                         /\ data[cbMsg[h].OrderUID] = cbMsg[h]

(***************************************************************************)
(* C7: when several callbacks have put messages with the same OrderUID,    *)
(* the cache holds under that OrderUID exactly the message of the put made *)
(* last: no other message, and no mix of two.                              *)
(***************************************************************************)
C7_LastWriteWins ==
    \A x \in {cbMsg[h].OrderUID : h \in Range(applied)} :
        Cardinality(PutsFor(x)) >= 2 =>
            /\ x \in DOMAIN data
            /\ \E h \in PutsFor(x) : IsLastPut(h) /\ data[x] = cbMsg[h]

\* two different messages for one OrderUID; the first message's put came last
C7_Witness ==
    /\ NumMsgs >= 2
    /\ Len(applied) >= 2
    /\ applied[1] = 2 /\ applied[2] = 1
    /\ cbMsg[1].OrderUID = cbMsg[2].OrderUID
    /\ cbMsg[1] # cbMsg[2]
    /\ data[cbMsg[1].OrderUID] = cbMsg[1]

(***************************************************************************)
(* C8: a failed INSERT is only logged: the step that fails leaves the      *)
(* cache (with the entry of that message) and the table as they are, ends  *)
(* neither the process nor the subscription, touches no other callback and *)
(* no request; no step of a callback waiting on its INSERT is fatal, and   *)
(* no request is answered with a server error.                             *)
(***************************************************************************)
C8_SaveFailureOnlyLogged ==
    [][\A h \in Callbacks :
          cbPc[h] = "saveMessageToDB" =>
            /\ fatal' # fatal => fatal' = "ListenAndServe"
            /\ cbPc'[h] \in {"saveMessageToDB", "saved", "saveFailed"}
            /\ \A q \in Requests : status'[q] \in {0, 200, 400, 404}
            /\ cbPc'[h] = "saveFailed" =>
                 /\ data' = data
                 /\ cbMsg[h].OrderUID \in DOMAIN data'
                 /\ rows' = rows
                 /\ "Failed to save message to DB:" \in logged'
                 /\ natsPc' = "select"
                 /\ writer' = writer
                 /\ reqPc' = reqPc /\ status' = status
                 /\ \A g \in Callbacks \ {h} : cbPc'[g] = cbPc[g]]_vars

\* the first message's INSERT failed, its entry is in the cache, and the
\* second message went through
C8_Witness ==
    /\ NumMsgs >= 2
    /\ cbPc[1] = "saveFailed"
    /\ applied = <<1, 2>>
    /\ cbMsg[1].OrderUID # cbMsg[2].OrderUID
    /\ data[cbMsg[1].OrderUID] = cbMsg[1]
    /\ cbPc[2] = "saved"
    /\ "Failed to save message to DB:" \in logged

(***************************************************************************)
(* C9: a message whose payload does not decode is dropped: the step that   *)
(* receives it leaves the cache and the table as they are, is logged, and  *)
(* ends neither the process nor the subscription; such a message never     *)
(* reaches the cache write or the INSERT.                                  *)
(***************************************************************************)
C9_DecodeFailureDropsMessage ==
    [][\A h \in Callbacks :
          /\ (cbPc[h] = "idle" /\ cbPc'[h] # "idle" /\ Unmarshal(cbData'[h]).err) =>
               /\ cbPc'[h] = "dropped"
               /\ data' = data
               /\ rows' = rows
               /\ "Failed to unmarshal message:" \in logged'
               /\ fatal' = fatal
               /\ natsPc' = natsPc
               /\ writer' = writer
          /\ cbPc'[h] \in {"Lock", "Unlock", "saveMessageToDB", "saved", "saveFailed"}
               => ~Unmarshal(cbData'[h]).err]_vars

\* the first message was dropped; the second one is in the cache and in the table
C9_Witness ==
    /\ NumMsgs >= 2
    /\ cbPc[1] = "dropped"
    /\ applied = <<2>>
    /\ cbPc[2] = "saved"
    /\ data[cbMsg[2].OrderUID] = cbMsg[2]
    /\ Len(rows) >= 1
    /\ rows[Len(rows)] = Row(cbMsg[2].OrderUID, Marshal(cbMsg[2]))

(***************************************************************************)
(* C10: when db.Query fails, the failure is logged, the goroutine goes on  *)
(* to the subscription, the process is not ended by it, and until a        *)
(* message is consumed the cache is empty.                                 *)
(***************************************************************************)
C10_EnumerationFailureStillReady ==
    restoreErr = "Query" =>
        /\ "Failed to restore cache from DB:" \in logged
        /\ natsPc \in {"Subscribe", "select"}
        /\ fatal \in {"none", "Subscribe", "ListenAndServe"}
        /\ applied = <<>> => data = EmptyMap

\* db.Query failed on a table holding order "1"; the subscription was made, a
\* message is being handled and a request for "1" got 404
C10_Witness ==
    /\ restoreErr = "Query"
    /\ Len(rows) >= 1 /\ rows[1].id = Id1
    /\ Subscribed
    /\ fatal = "none"
    /\ cbPc[1] = "Lock"
    /\ \E q \in Requests : reqId[q] = Id1 /\ status[q] = 404

(***************************************************************************)
(* C11: the outcomes of a query.                                           *)
(***************************************************************************)
\* the identifier without its sign
Unsigned(s) == IF Len(s) > 0 /\ s[1] \in {"+", "-"} THEN Tail(s) ELSE s

\* the identifier is not a run of decimal digits (a missing one is not)
NonNumeric(s) ==
    LET body == Unsigned(s)
    IN Len(body) = 0 \/ \E i \in 1..Len(body) : ~IsDigit(body[i])

\* the handler of q has returned without reaching the cache
NotConsulted(q) == reqKey[q] = <<>> /\ ~reqOk[q] /\ reqMsg[q] = ZeroMessage

C12_LookupByGivenIdentifier ==
    \A q \in Requests :
        Reading(q) => (reqOk[q] <=> reqId[q] \in DOMAIN data)

(***************************************************************************)
(* C13: the durable write is made without the cache lock.                  *)
(***************************************************************************)
\* callback h is inside saveMessageToDB (the INSERT has not returned)
InDurableWrite(h) == cbPc[h] = "saveMessageToDB"

\* C13: whenever a callback is inside the durable write it does not hold the
\* cache lock, so a hung INSERT stalls only its own invocation.
C13_NoLockDuringDurableWrite ==
    \A h \in Callbacks : InDurableWrite(h) => writer # h

\* callback 1 is still inside the durable write; meanwhile callback 2 has
\* written the cache and saved its row, and a request has read that entry
C13_Witness ==
    /\ InDurableWrite(1)
    /\ applied = <<1, 2>>
    /\ cbPc[2] = "saved"
    /\ cbData[1] = PayloadA /\ cbData[2] = PayloadB
    /\ \E q \in Requests : status[q] = 200 /\ reqMsg[q] = cbMsg[2]

(***************************************************************************)
(* C14: recovery and the order of enumeration.                             *)
(***************************************************************************)
\* the orders in which the rows of a table can be enumerated
Enumerations(table) ==
    {[i \in 1..Len(table) |-> table[f[i]]] : f \in Permutations(1..Len(table))}

\* no two rows of the table have the same identifier
DistinctIds == \A i, j \in 1..Len(rows) : i # j => rows[i].id # rows[j].id

\* C14: for a table whose rows have pairwise distinct identifiers (whether or
\* not every payload decodes), the cache recovery leaves is the one it would
\* leave for every other order of enumeration.  Stated at the moment recovery
\* ends, for tables that could be enumerated and whose identifiers all scan.
C14_RecoveryOrderIndependent ==
    (natsPc = "Subscribe" /\ restoreErr # "Query" /\ AllIdsScan /\ DistinctIds) =>
        \A table \in Enumerations(rows) : restoreCacheFromDB(table, EmptyMap) = data

(***************************************************************************)
(* C15: the lock discipline of the cache.                                  *)
(***************************************************************************)
\* the callbacks between cache.Lock() and cache.Unlock()
CallbacksInside == {h \in Callbacks : cbPc[h] = "Unlock"}

\* restoreCacheFromDB is between cache.Lock() and cache.Unlock()
RestoreInside == natsPc = "Unlock"

\* the requests between cache.RLock() and cache.RUnlock()
ReadersInside == {q \in Requests : reqPc[q] = "RUnlock"}

\* the number of writers inside the critical section
WritersInside == Cardinality(CallbacksInside) + (IF RestoreInside THEN 1 ELSE 0)

\* C15: at most one writer (a callback's put or a recovery put) is inside the
\* critical section; while a writer is inside no reader is inside; and the
\* entry a reader found is the whole entry that the map holds for as long as
\* the reader is inside.
C15_LockDiscipline ==
    /\ WritersInside <= 1
    /\ WritersInside = 1 => ReadersInside = {}
    /\ \A q \in ReadersInside :
           reqOk[q] => reqKey[q] \in DOMAIN data /\ reqMsg[q] = data[reqKey[q]]

\* several readers are inside at once, while a callback waits for the lock
C15_Witness ==
    /\ Cardinality(ReadersInside) >= 2
    /\ \E h \in Callbacks : cbPc[h] = "Lock"
    /\ \E q \in ReadersInside : reqOk[q]

(***************************************************************************)
(* C16: the cache is written before the row is inserted.                   *)
(***************************************************************************)
\* the callbacks whose INSERT has been made
SavedCallbacks == {h \in Callbacks : cbPc[h] = "saved"}

\* the rows the callbacks of this run have inserted: the table's last ones
InsertedRows ==
    {rows[i] : i \in (Len(rows) - Cardinality(SavedCallbacks) + 1)..Len(rows)}

\* C16: a callback that has reached the INSERT has made its cache write, and
\* every row that a callback of this run has inserted into the table has its
\* identifier in the cache.
C16_VisibleBeforeDurable ==
    /\ \A h \in Callbacks :
           cbPc[h] \in {"saveMessageToDB", "saved", "saveFailed"} =>
               h \in Range(applied) /\ cbMsg[h].OrderUID \in DOMAIN data
    /\ \A row \in InsertedRows : row.id \in DOMAIN data

\* a callback has inserted the row of order a-1, and the cache holds a-1
C16_Witness ==
    /\ \E h \in SavedCallbacks : cbMsg[h].OrderUID = IdOrder1
    /\ Row(IdOrder1, Marshal(Unmarshal(PayloadC).message)) \in InsertedRows
    /\ IdOrder1 \in DOMAIN data

(***************************************************************************)
(* C17: nothing is deleted from the cache.                                 *)
(***************************************************************************)
\* this step is the cache write of a callback, under identifier k
CallbackPuts(k) ==
    \E h \in Callbacks :
        /\ cbPc[h] = "Lock" /\ cbPc'[h] = "Unlock"
        /\ cbMsg[h].OrderUID = k /\ data'[k] = cbMsg[h]

\* this step is the cache write of restoreCacheFromDB, under identifier k
RestorePuts(k) == natsPc = "Lock" /\ natsPc' = "Unlock" /\ rowKey = k /\ data'[k] = rowMsg

\* C17: no step removes an identifier from the cache, and an entry changes
\* only by a put of a whole message under the same identifier.
C17_NoDelete ==
    [][/\ DOMAIN data \subseteq DOMAIN data'
       /\ \A k \in DOMAIN data :
              data'[k] # data[k] => CallbackPuts(k) \/ RestorePuts(k)]_vars

\* order 1 was restored from the table and then replaced by a callback, and
\* a second identifier has been added since
C17_Witness ==
    /\ restoreErr = "nil" /\ Len(rows) >= 1 /\ rows[1] = SavedRow(PayloadA)
    /\ Id1 \in DOMAIN data /\ data[Id1] = Unmarshal(PayloadB).message
    /\ IdOrder1 \in DOMAIN data

(***************************************************************************)
(* C18: the key of an entry and the OrderUID of its message.               *)
(***************************************************************************)
\* C18: every entry of the cache is stored under the OrderUID of the message
\* it holds, whether a callback or restoreCacheFromDB wrote it.
C18_KeyIsOrderUID ==
    \A k \in DOMAIN data : data[k].OrderUID = k

(***************************************************************************)
(* C19: recovery puts come before ingestion puts.                          *)
(***************************************************************************)
\* this step is a cache write of restoreCacheFromDB
RestorePutStep == natsPc = "Lock" /\ natsPc' = "Unlock"

\* C19: whenever restoreCacheFromDB writes the cache, no callback has written
\* it yet and none has been invoked; so a restored value never replaces a
\* value ingested in this run.
C19_RecoveryBeforeIngestion ==
    [][RestorePutStep =>
           /\ applied = <<>>
           /\ \A h \in Callbacks : cbPc[h] = "idle"]_vars

\* two rows were restored, then a callback replaced the restored order 1
C19_Witness ==
    /\ restoreErr = "nil" /\ rowIdx = 2
    /\ rows[1] = SavedRow(PayloadA)
    /\ applied = <<1>> /\ cbData[1] = PayloadB
    /\ data[Id1] = cbMsg[1]

(***************************************************************************)
(* C20: the handler only reads.                                            *)
(***************************************************************************)
\* this step is a step of the handler of request q
HandlerStep(q) == reqPc'[q] # reqPc[q]

\* C20: no step of a handler, whatever the outcome of its request, changes
\* the contents of the cache or the rows of the table, and a handler that
\* has come to build its response no longer holds the read lock.
C20_QueriesReadOnly ==
    [][\A q \in Requests :
           HandlerStep(q) =>
               /\ data' = data
               /\ rows' = rows
               /\ reqPc'[q] \in {"respond", "done"} => q \notin readers']_vars

\* one request has been answered 200 and another 400, with entries in the
\* cache and rows in the table, and no read lock is held
C20_Witness ==
    /\ \E q \in Requests : reqPc[q] = "done" /\ status[q] = 200
    /\ \E q \in Requests : reqPc[q] = "done" /\ status[q] = 400
    /\ readers = {}
    /\ DOMAIN data # {} /\ Len(rows) > 0

====
